---- MODULE Spec2Model ----
(***************************************************************************)
(* Model of the CV extraction core of ai-job-recommender                   *)
(* (src/src/cv_extraction.py).                                             *)
(*                                                                         *)
(* Texts.  A text is a sequence of lexemes and denotes the string obtained *)
(* by writing the lexemes one after the other separated by white space;    *)
(* the lexeme NL is a line break.  A lexeme is a word W(s) or a number     *)
(* N(d, plus) whose decimal digits are d, followed by "+" when plus holds. *)
(* Every regular expression of the source is translated to a matcher over  *)
(* lexemes that accepts exactly what the expression accepts on such        *)
(* strings over the vocabulary below.                                      *)
(*                                                                         *)
(* Strings.  The skill parser works on single characters, so its argument  *)
(* is a string: a sequence of characters, each a one-character TLA+ string *)
(* or, for a character outside ASCII, the name "U+XXXX" of its code point. *)
(* Spell(text) is the string a text denotes.                               *)
(***************************************************************************)
EXTENDS Integers, Sequences, FiniteSets, TLC

VARIABLES
    pc,                 \* position in the running function
    raw_text,           \* the decoded document text
    section_boundaries, \* result of find_section_boundaries
    section_type,       \* argument of extract_section_content
    content,            \* result of extract_section_content
    summary_text,       \* argument of extract_years_of_experience
    experience_text,    \* argument of extract_years_of_experience
    summary_years,      \* Optional[float] returned by extract_experience_from_summary
    summary_details,
    exp_years,          \* Optional[float] returned by extract_experience_from_dates
    exp_details,
    total_exp,          \* years returned by extract_years_of_experience
    details_out,        \* provenance returned by extract_years_of_experience
    skills_text,        \* argument of parse_skills_from_section, a string
    skills,             \* the candidates collected before deduplication
    unique_skills,      \* result of parse_skills_from_section
    sections_found,     \* extract_cv_data: set(s[0] for s in section_boundaries)
    skills_raw,         \* extract_cv_data: content of the skills section
    cv,                 \* the CVData returned by extract_cv_data
    job,                \* the Job given to calculate_similarity
    exp_str,            \* argument of parse_experience
    semantic_score,     \* what semantic_similarity returns for the two texts
    skill_score,        \* result of skill_similarity
    exp_score,          \* result of experience_similarity
    final_score,        \* result of calculate_similarity
    error,              \* the exception calculate_similarity ended with, or ""
    df,                 \* scrape_job_details: the rows of the DataFrame
    pages,              \* what the site answers for each row's link
    row_i,              \* the row the loop of scrape_job_details is at
    driver_quits,       \* number of calls of driver.quit()
    visited             \* the rows the loop has visited, in order

segVars == <<raw_text, section_boundaries, section_type, content>>
expVars == <<summary_text, experience_text, summary_years, summary_details,
             exp_years, exp_details, total_exp, details_out>>
skillVars == <<skills_text, skills, unique_skills>>
cvVars == <<sections_found, skills_raw, cv>>
simVars == <<job, exp_str, semantic_score, skill_score, exp_score, final_score, error>>
scrVars == <<df, pages, row_i, driver_quits, visited>>

vars == <<pc, segVars, expVars, skillVars, cvVars, simVars, scrVars>>

----------------------------------------------------------------------------
(* Bounds *)

MaxRanges == 3      \* entries in a generated experience text
MaxMentions == 2    \* phrases in a generated summary text
MaxLines == 4       \* lines in a generated document
MaxWideLines == 2   \* lines in a document over the wide line vocabulary
MaxChunks == 3      \* chunks in a generated skills text
MaxWideChunks == 2  \* chunks in a skills text over the wide chunks
MaxListedSkills == 2 \* skills in a list given to skill_similarity
MaxCVLines == 4     \* lines in a document given to extract_cv_data

----------------------------------------------------------------------------
(* Lexemes *)

W(s) == [k |-> "w", s |-> s, d |-> <<>>, plus |-> FALSE]
N(d, plus) == [k |-> "n", s |-> "", d |-> d, plus |-> plus]
NL == W("\n")
WS == W(" ")

Y(a, b, c, e) == N(<<a, b, c, e>>, FALSE)

\* the words that occur in the generated texts
Vocabulary ==
    {"Skills", "skills", "SKILLS", "SKILLS:", "skills:", "Experience", "experience", "Work",
     "work", "Projects", "projects", "PROJECTS", "Summary", "summary", "AWARDS", "awards",
     "Awards", "ACME", "acme", "Technical", "technical", "Key", "key", "Python,",
     "python,", "PYTHON", "python", "Go", "go", "Py,", "py,", "PY",
     "py", "Present", "present", "Jan", "jan", "Jun", "jun", "Years",
     "years", "now", "to", "-", ":", "yrs", "of", "over",
     "worked", "for", "as", "a", "developer", "in", "roles",
     " ", "\n", "LONGWORD", "longword"}

\* the characters of every word of the vocabulary
Chars ==
    [s \in Vocabulary |->
        CASE s = "Skills" -> <<"S", "k", "i", "l", "l", "s">>
          [] s = "skills" -> <<"s", "k", "i", "l", "l", "s">>
          [] s = "SKILLS" -> <<"S", "K", "I", "L", "L", "S">>
          [] s = "SKILLS:" -> <<"S", "K", "I", "L", "L", "S", ":">>
          [] s = "skills:" -> <<"s", "k", "i", "l", "l", "s", ":">>
          [] s = "Experience" -> <<"E", "x", "p", "e", "r", "i", "e", "n", "c", "e">>
          [] s = "experience" -> <<"e", "x", "p", "e", "r", "i", "e", "n", "c", "e">>
          [] s = "Work" -> <<"W", "o", "r", "k">>
          [] s = "work" -> <<"w", "o", "r", "k">>
          [] s = "Projects" -> <<"P", "r", "o", "j", "e", "c", "t", "s">>
          [] s = "projects" -> <<"p", "r", "o", "j", "e", "c", "t", "s">>
          [] s = "PROJECTS" -> <<"P", "R", "O", "J", "E", "C", "T", "S">>
          [] s = "Summary" -> <<"S", "u", "m", "m", "a", "r", "y">>
          [] s = "summary" -> <<"s", "u", "m", "m", "a", "r", "y">>
          [] s = "AWARDS" -> <<"A", "W", "A", "R", "D", "S">>
          [] s = "awards" -> <<"a", "w", "a", "r", "d", "s">>
          [] s = "Awards" -> <<"A", "w", "a", "r", "d", "s">>
          [] s = "ACME" -> <<"A", "C", "M", "E">>
          [] s = "acme" -> <<"a", "c", "m", "e">>
          [] s = "Technical" -> <<"T", "e", "c", "h", "n", "i", "c", "a", "l">>
          [] s = "technical" -> <<"t", "e", "c", "h", "n", "i", "c", "a", "l">>
          [] s = "Key" -> <<"K", "e", "y">>
          [] s = "key" -> <<"k", "e", "y">>
          [] s = "Python," -> <<"P", "y", "t", "h", "o", "n", ",">>
          [] s = "python," -> <<"p", "y", "t", "h", "o", "n", ",">>
          [] s = "PYTHON" -> <<"P", "Y", "T", "H", "O", "N">>
          [] s = "python" -> <<"p", "y", "t", "h", "o", "n">>
          [] s = "Go" -> <<"G", "o">>
          [] s = "go" -> <<"g", "o">>
          [] s = "Py," -> <<"P", "y", ",">>
          [] s = "py," -> <<"p", "y", ",">>
          [] s = "PY" -> <<"P", "Y">>
          [] s = "py" -> <<"p", "y">>
          [] s = "Present" -> <<"P", "r", "e", "s", "e", "n", "t">>
          [] s = "present" -> <<"p", "r", "e", "s", "e", "n", "t">>
          [] s = "Jan" -> <<"J", "a", "n">>
          [] s = "jan" -> <<"j", "a", "n">>
          [] s = "Jun" -> <<"J", "u", "n">>
          [] s = "jun" -> <<"j", "u", "n">>
          [] s = "Years" -> <<"Y", "e", "a", "r", "s">>
          [] s = "years" -> <<"y", "e", "a", "r", "s">>
          [] s = "now" -> <<"n", "o", "w">>
          [] s = "to" -> <<"t", "o">>
          [] s = "-" -> <<"-">>
          [] s = ":" -> <<":">>
          [] s = "yrs" -> <<"y", "r", "s">>
          [] s = "of" -> <<"o", "f">>
          [] s = "over" -> <<"o", "v", "e", "r">>
          [] s = "worked" -> <<"w", "o", "r", "k", "e", "d">>
          [] s = "for" -> <<"f", "o", "r">>
          [] s = "as" -> <<"a", "s">>
          [] s = "a" -> <<"a">>
          [] s = "developer" -> <<"d", "e", "v", "e", "l", "o", "p", "e", "r">>
          [] s = "in" -> <<"i", "n">>
          [] s = "roles" -> <<"r", "o", "l", "e", "s">>
          [] s = " " -> <<" ">>
          [] s = "\n" -> <<"\n">>
          [] s = "LONGWORD" -> [i \in 1..44 |-> "X"]
          [] s = "longword" -> [i \in 1..44 |-> "x"]]

UpperLetters == <<"A", "B", "C", "D", "E", "F", "G", "H", "I", "J", "K", "L", "M", "N", "O", "P", "Q", "R", "S", "T", "U", "V", "W", "X", "Y", "Z">>
LowerLetters == <<"a", "b", "c", "d", "e", "f", "g", "h", "i", "j", "k", "l", "m", "n", "o", "p", "q", "r", "s", "t", "u", "v", "w", "x", "y", "z">>

IndexOf(c, letters) ==
    IF \E i \in 1..Len(letters) : letters[i] = c
    THEN CHOOSE i \in 1..Len(letters) : letters[i] = c ELSE 0

\* str.lower(), str.isupper() and len() on characters
LowerChar(c) == IF IndexOf(c, UpperLetters) # 0 THEN LowerLetters[IndexOf(c, UpperLetters)] ELSE c
LowerChars(cs) == [i \in 1..Len(cs) |-> LowerChar(cs[i])]
IsUpperChars(cs) ==
    /\ \E i \in 1..Len(cs) : IndexOf(cs[i], UpperLetters) # 0
    /\ \A i \in 1..Len(cs) : IndexOf(cs[i], LowerLetters) = 0

\* the word spelled cs
WordOf(cs) == CHOOSE u \in Vocabulary : Chars[u] = cs

LowerOf == [s \in Vocabulary |-> WordOf(LowerChars(Chars[s]))]

\* str.lower() on a lexeme
Lower(t) == IF t.k # "w" THEN t ELSE W(LowerOf[t.s])

LowerText(text) == [i \in 1..Len(text) |-> Lower(text[i])]

\* int() of a digit string
RECURSIVE int(_)
int(d) == IF d = <<>> THEN 0 ELSE int(SubSeq(d, 1, Len(d) - 1)) * 10 + d[Len(d)]

\* Optional values
None == [some |-> FALSE, v |-> 0]
Some(x) == [some |-> TRUE, v |-> x]

Max2(a, b) == IF a >= b THEN a ELSE b
Min2(a, b) == IF a <= b THEN a ELSE b

RECURSIVE SeqMax(_)
SeqMax(s) == IF Len(s) = 1 THEN s[1] ELSE Max2(s[1], SeqMax(Tail(s)))
RECURSIVE SeqMin(_)
SeqMin(s) == IF Len(s) = 1 THEN s[1] ELSE Min2(s[1], SeqMin(Tail(s)))

\* white space between lexemes: skip line breaks and blanks
RECURSIVE SkipWs(_, _)
SkipWs(t, i) == IF i <= Len(t) /\ t[i] \in {NL, WS} THEN SkipWs(t, i + 1) ELSE i

IsWord(t, i, set) == i <= Len(t) /\ t[i].k = "w" /\ t[i].s \in set
IsNum(t, i) == i <= Len(t) /\ t[i].k = "n"

----------------------------------------------------------------------------
(* extract_experience_from_summary *)

YearsWords == {"years", "year", "yrs", "yr"}
ExpWords == {"experience", "exp"}
RoleWords == {"developer", "engineer", "analyst", "scientist", "manager"}
\* lexemes made of letters only: the class [a-zA-Z\s] of the fourth pattern
AlphaWords == YearsWords \cup ExpWords \cup RoleWords \cup
              {"of", "worked", "for", "as", "a", "over", "in", "roles", "\n", " "}

NoMatch == [ok |-> FALSE, end |-> 0, n |-> <<>>]
Match(end, n) == [ok |-> TRUE, end |-> end, n |-> n]

\* (\d+)\+?\s*(?:years?|yrs?) starting at lexeme i; allowPlus is FALSE for
\* the fifth pattern, which has no \+?
NumYears(t, i, allowPlus) ==
    LET j == SkipWs(t, i + 1) IN
    IF IsNum(t, i) /\ (allowPlus \/ ~t[i].plus) /\ IsWord(t, j, YearsWords)
    THEN Match(j, t[i].d) ELSE NoMatch

\* the furthest role noun reachable from i over letter-only lexemes, with at
\* least one lexeme in between (the greedy [a-zA-Z\s]+ needs one character)
RECURSIVE LastRole(_, _, _)
LastRole(t, i, first) ==
    IF i > Len(t) \/ t[i].k # "w" \/ t[i].s \notin AlphaWords THEN 0
    ELSE LET rest == LastRole(t, i + 1, FALSE) IN
         IF rest # 0 THEN rest
         ELSE IF ~first /\ t[i].s \in RoleWords THEN i ELSE 0

\* one match attempt of pattern p (1..5) at lexeme i
SummaryMatch(p, t, i) ==
    CASE p = 1 ->
           LET m == NumYears(t, i, TRUE)
               j == SkipWs(t, m.end + 1)
               j2 == SkipWs(t, j + 1) IN
           IF ~m.ok THEN NoMatch
           ELSE IF IsWord(t, j, {"of"}) /\ IsWord(t, j2, ExpWords) THEN Match(j2, m.n)
           ELSE IF IsWord(t, j, ExpWords) THEN Match(j, m.n)
           ELSE NoMatch
      [] p = 2 ->
           LET j == SkipWs(t, i + 1)
               j2 == SkipWs(t, j + 1)
               m1 == NumYears(t, j2, TRUE)
               m2 == NumYears(t, j, TRUE) IN
           IF ~IsWord(t, i, ExpWords) THEN NoMatch
           ELSE IF IsWord(t, j, {"of"}) /\ m1.ok THEN m1
           ELSE m2
      [] p = 3 ->
           LET j == SkipWs(t, i + 1)
               j2 == SkipWs(t, j + 1)
               m1 == NumYears(t, j2, TRUE)
               m2 == NumYears(t, j, TRUE) IN
           IF ~IsWord(t, i, {"worked"}) THEN NoMatch
           ELSE IF IsWord(t, j, {"for"}) /\ m1.ok THEN m1
           ELSE m2
      [] p = 4 ->
           LET m == NumYears(t, i, TRUE)
               r == LastRole(t, m.end + 1, TRUE) IN
           IF m.ok /\ r # 0 THEN Match(r, m.n) ELSE NoMatch
      [] p = 5 ->
           LET j == SkipWs(t, i + 1) IN
           IF IsWord(t, i, {"over"}) THEN NumYears(t, j, FALSE) ELSE NoMatch

\* re.findall(pattern, summary_lower): leftmost, non-overlapping matches
RECURSIVE FindAllSummary(_, _, _)
FindAllSummary(p, t, i) ==
    IF i > Len(t) THEN <<>>
    ELSE LET m == SummaryMatch(p, t, i) IN
         IF m.ok THEN <<m.n>> \o FindAllSummary(p, t, m.end + 1)
         ELSE FindAllSummary(p, t, i + 1)

\* the matches of all five patterns, in the order the loops visit them
RECURSIVE SummaryMentions(_, _)
SummaryMentions(t, p) ==
    IF p > 5 THEN <<>>
    ELSE FindAllSummary(p, t, 1) \o SummaryMentions(t, p + 1)

MentionRecord(n) == [type |-> "explicit_mention_summary", years |-> int(n), context |-> n]

SummaryFound(total_years) == total_years > 0

extract_experience_from_summary(text) ==
    IF text = <<>> THEN <<None, <<>>>>
    ELSE LET matches == SummaryMentions(LowerText(text), 1)
             details == [i \in 1..Len(matches) |-> MentionRecord(matches[i])]
             total_years == IF matches = <<>> THEN 0
                            ELSE Max2(0, SeqMax([i \in 1..Len(matches) |-> int(matches[i])]))
         IN IF SummaryFound(total_years) THEN <<Some(total_years), details>>
            ELSE <<None, <<>>>>

----------------------------------------------------------------------------
(* extract_experience_from_dates *)

current_year == 2025
MinYear == 1950

MonthWords == {"jan", "feb", "mar", "apr", "may", "jun", "jul", "aug", "sep",
               "oct", "nov", "dec"}
SepWords == {"-", "to"}
PresentWords == {"present", "current", "now"}

IsYear4(t, i) == IsNum(t, i) /\ Len(t[i].d) = 4

NoDate == [ok |-> FALSE, end |-> 0, start |-> <<>>, end_part |-> <<>>]

\* one match attempt of date_pattern at lexeme i: an optional month, the
\* start year, one separator lexeme, then either an optional month and a
\* year or one of present/current/now
DateMatch(t, i) ==
    LET ys == IF IsWord(t, i, MonthWords) THEN SkipWs(t, i + 1) ELSE i
        sp == SkipWs(t, ys + 1)
        e1 == SkipWs(t, sp + 1)
        e2 == SkipWs(t, e1 + 1)
    IN  IF ~(IsYear4(t, ys) /\ ~t[ys].plus /\ IsWord(t, sp, SepWords)) THEN NoDate
        ELSE IF IsWord(t, e1, MonthWords) /\ IsYear4(t, e2)
             THEN [ok |-> TRUE, end |-> e2, start |-> t[ys].d, end_part |-> <<t[e1], t[e2]>>]
        ELSE IF IsYear4(t, e1)
             THEN [ok |-> TRUE, end |-> e1, start |-> t[ys].d, end_part |-> <<t[e1]>>]
        ELSE IF IsWord(t, e1, PresentWords)
             THEN [ok |-> TRUE, end |-> e1, start |-> t[ys].d, end_part |-> <<t[e1]>>]
        ELSE NoDate

\* re.findall(date_pattern, text_lower): leftmost, non-overlapping matches
RECURSIVE FindAllDates(_, _)
FindAllDates(t, i) ==
    IF i > Len(t) THEN <<>>
    ELSE LET m == DateMatch(t, i) IN
         IF m.ok THEN <<[start |-> m.start, end_part |-> m.end_part]>>
                      \o FindAllDates(t, m.end + 1)
         ELSE FindAllDates(t, i + 1)

\* any(word in end_part.lower() for word in ['present', 'current', 'now'])
EndIsPresent(end_part) ==
    \E i \in 1..Len(end_part) : end_part[i].k = "w" /\ end_part[i].s \in PresentWords

\* re.search(r'(\d{4})', end_part)
EndYearOf(end_part) ==
    LET idx == {i \in 1..Len(end_part) : IsYear4(end_part, i)} IN
    IF idx = {} THEN None
    ELSE Some(int(end_part[CHOOSE i \in idx : \A j \in idx : i <= j].d))

\* the sanity check of the loop
SanityCheck(start_year, end_year) ==
    /\ MinYear < start_year /\ start_year <= current_year
    /\ MinYear < end_year /\ end_year <= current_year

\* the "end" field of a date_range record: the end year, or "present"
DetailEnd(end_year, has_present) ==
    IF has_present THEN [present |-> TRUE, year |-> 0]
    ELSE [present |-> FALSE, year |-> end_year]

DateRecord(start_year, end_year, has_present) ==
    [type |-> "date_range", start |-> start_year,
     end |-> DetailEnd(end_year, has_present), years |-> end_year - start_year]

EmptyAcc == [start_years |-> <<>>, end_years |-> <<>>, details |-> <<>>,
             has_present |-> FALSE]

\* one iteration of "for match in date_matches"
DatesStep(acc, match) ==
    LET start_year == int(match.start)
        present == EndIsPresent(match.end_part)
        has_present == acc.has_present \/ present
        year_match == EndYearOf(match.end_part)
        end_year == IF present THEN current_year ELSE year_match.v
    IN  IF ~present /\ ~year_match.some THEN acc
        ELSE IF SanityCheck(start_year, end_year)
             THEN [start_years |-> Append(acc.start_years, start_year),
                   end_years |-> Append(acc.end_years, end_year),
                   details |-> Append(acc.details,
                                      DateRecord(start_year, end_year, has_present)),
                   has_present |-> has_present]
             ELSE [acc EXCEPT !.has_present = has_present]

RECURSIVE DatesLoop(_, _, _)
DatesLoop(acc, matches, i) ==
    IF i > Len(matches) THEN acc
    ELSE DatesLoop(DatesStep(acc, matches[i]), matches, i + 1)

RECURSIVE SeqSum(_)
SeqSum(s) == IF s = <<>> THEN 0 ELSE s[1] + SeqSum(Tail(s))

\* variant: the spans of the ranges summed one by one
TotalYearsNaiveSum(acc) ==
    SeqSum([i \in 1..Len(acc.start_years) |-> acc.end_years[i] - acc.start_years[i]])

\* variant: the earliest end taken instead of the latest
TotalYearsMinEnd(acc) ==
    IF acc.has_present THEN current_year - SeqMin(acc.start_years)
    ELSE SeqMin(acc.end_years) - SeqMin(acc.start_years)

\* "Calculate total experience"
TotalYears(acc) ==
    IF acc.has_present THEN current_year - SeqMin(acc.start_years)
    ELSE SeqMax(acc.end_years) - SeqMin(acc.start_years)

\* the value returned on the last line of extract_experience_from_dates
DatesReturn(total_years, details) ==
    <<IF total_years > 0 THEN Some(total_years) ELSE None, details>>

extract_experience_from_dates(text) ==
    IF text = <<>> THEN <<None, <<>>>>
    ELSE LET date_matches == FindAllDates(LowerText(text), 1)
             acc == DatesLoop(EmptyAcc, date_matches, 1)
         IN IF date_matches = <<>> THEN <<None, <<>>>>
            ELSE IF acc.start_years = <<>> THEN <<None, <<>>>>
            ELSE DatesReturn(TotalYears(acc), acc.details)

----------------------------------------------------------------------------
(* Section header patterns *)

\* A pattern is the set of word sequences it accepts, in lower case; the
\* optional colon and the surrounding white space are handled by HeaderWords.
Wd(s) == {<<s>>}
Opt(A) == A \cup {<<>>}
Cat(A, B) == {a \o b : a \in A, b \in B}

SECTION_TYPES == <<"skills", "summary", "experience", "education", "projects",
                   "certifications">>

SECTION_PATTERNS ==
    [skills |->
        <<Cat(Opt(Wd("technical")), Wd("skills")),
          Cat(Wd("core"), Wd("competencies") \cup Wd("skills")),
          Cat(Opt(Wd("key")), Wd("technologies")),
          Cat(Wd("technical"), Wd("proficiency") \cup Wd("expertise")),
          Cat(Wd("areas"), Cat(Wd("of"), Wd("expertise"))),
          Cat(Wd("tool") \cup Wd("tools"),
              Cat(Opt(Wd("&") \cup Wd("and")), Wd("technologies"))),
          Cat(Wd("programming"), Wd("languages") \cup Wd("skills"))>>,
     summary |->
        <<Cat(Opt(Wd("professional")), Wd("summary")),
          Cat(Opt(Wd("career")), Wd("objective")),
          Cat(Wd("about"), Opt(Wd("me"))),
          Wd("profile"),
          Cat(Opt(Wd("executive")), Wd("overview")),
          Cat(Wd("personal"), Wd("statement")),
          Wd("introduction")>>,
     experience |->
        <<Cat(Opt(Wd("work")), Wd("experience")),
          Cat(Opt(Wd("professional")), Wd("experience")),
          Cat(Wd("employment"), Wd("history") \cup Wd("record")),
          Cat(Wd("work"), Wd("history")),
          Cat(Wd("career"), Wd("history"))>>,
     education |->
        <<Wd("education"),
          Cat(Wd("academic"), Wd("background") \cup Wd("qualifications")),
          Wd("qualifications")>>,
     projects |->
        <<Wd("project") \cup Wd("projects"),
          Cat(Opt(Wd("key")), Wd("project") \cup Wd("projects")),
          Cat(Wd("personal"), Wd("project") \cup Wd("projects"))>>,
     certifications |->
        <<Wd("certification") \cup Wd("certifications"),
          Cat(Wd("license") \cup Wd("licenses"),
              Cat(Opt(Wd("&") \cup Wd("and")),
                  Wd("certification") \cup Wd("certifications"))),
          Cat(Wd("professional"), Wd("certification") \cup Wd("certifications"))>>]

\* All section keywords for boundary detection, as characters
ALL_SECTION_KEYWORDS ==
    {<<"s", "k", "i", "l", "l", "s">>,
     <<"t", "e", "c", "h", "n", "i", "c", "a", "l", " ", "s", "k", "i", "l", "l", "s">>,
     <<"c", "o", "r", "e", " ", "c", "o", "m", "p", "e", "t", "e", "n", "c", "i", "e", "s">>,
     <<"t", "e", "c", "h", "n", "o", "l", "o", "g", "i", "e", "s">>,
     <<"s", "u", "m", "m", "a", "r", "y">>,
     <<"o", "b", "j", "e", "c", "t", "i", "v", "e">>,
     <<"a", "b", "o", "u", "t">>,
     <<"p", "r", "o", "f", "i", "l", "e">>,
     <<"o", "v", "e", "r", "v", "i", "e", "w">>,
     <<"e", "x", "p", "e", "r", "i", "e", "n", "c", "e">>,
     <<"w", "o", "r", "k", " ", "e", "x", "p", "e", "r", "i", "e", "n", "c", "e">>,
     <<"p", "r", "o", "f", "e", "s", "s", "i", "o", "n", "a", "l", " ", "e", "x", "p", "e", "r", "i", "e", "n", "c", "e">>,
     <<"e", "m", "p", "l", "o", "y", "m", "e", "n", "t">>,
     <<"e", "d", "u", "c", "a", "t", "i", "o", "n">>,
     <<"a", "c", "a", "d", "e", "m", "i", "c">>,
     <<"q", "u", "a", "l", "i", "f", "i", "c", "a", "t", "i", "o", "n", "s">>,
     <<"p", "r", "o", "j", "e", "c", "t", "s">>,
     <<"p", "e", "r", "s", "o", "n", "a", "l", " ", "p", "r", "o", "j", "e", "c", "t", "s">>,
     <<"c", "e", "r", "t", "i", "f", "i", "c", "a", "t", "i", "o", "n", "s">>,
     <<"l", "i", "c", "e", "n", "s", "e", "s">>,
     <<"a", "c", "h", "i", "e", "v", "e", "m", "e", "n", "t", "s">>,
     <<"a", "w", "a", "r", "d", "s">>,
     <<"h", "o", "n", "o", "r", "s">>,
     <<"l", "a", "n", "g", "u", "a", "g", "e", "s">>,
     <<"i", "n", "t", "e", "r", "e", "s", "t", "s">>,
     <<"h", "o", "b", "b", "i", "e", "s">>,
     <<"r", "e", "f", "e", "r", "e", "n", "c", "e", "s">>,
     <<"p", "u", "b", "l", "i", "c", "a", "t", "i", "o", "n", "s">>,
     <<"c", "o", "u", "r", "s", "e", "s">>}

----------------------------------------------------------------------------
(* Lines *)

\* text.split('\n')
RECURSIVE SplitLines(_)
SplitLines(text) ==
    IF \A i \in 1..Len(text) : text[i] # NL THEN <<text>>
    ELSE LET k == CHOOSE i \in 1..Len(text) :
                      text[i] = NL /\ \A j \in 1..(i - 1) : text[j] # NL
         IN <<SubSeq(text, 1, k - 1)>> \o SplitLines(SubSeq(text, k + 1, Len(text)))

\* str.strip() on a text: leading and trailing white space removed
RECURSIVE Strip(_)
Strip(text) ==
    IF text = <<>> THEN <<>>
    ELSE IF text[1] \in {WS, NL} THEN Strip(Tail(text))
    ELSE IF text[Len(text)] \in {WS, NL} THEN Strip(SubSeq(text, 1, Len(text) - 1))
    ELSE text

DigitChars == <<"0", "1", "2", "3", "4", "5", "6", "7", "8", "9">>

\* the characters of one lexeme
LexemeChars(t) ==
    IF t.k = "w" THEN Chars[t.s]
    ELSE [i \in 1..Len(t.d) |-> DigitChars[t.d[i] + 1]] \o (IF t.plus THEN <<"+">> ELSE <<>>)

\* the string a text denotes: lexemes separated by one blank, except next
\* to a line break or a blank lexeme
RECURSIVE Spell(_)
Spell(text) ==
    IF text = <<>> THEN <<>>
    ELSE IF Len(text) = 1 THEN LexemeChars(text[1])
    ELSE LexemeChars(text[1])
         \o (IF text[1] \in {WS, NL} \/ text[2] \in {WS, NL} THEN <<>> ELSE <<" ">>)
         \o Spell(Tail(text))

NotBlankLexeme(t) == t # WS

\* the words of a stripped line in lower case, without the optional colon
\* that may end a header ("Skills:" or "Skills :")
HeaderWords(stripped) ==
    LET ws == SelectSeq(stripped, NotBlankLexeme)
        n == Len(ws)
        cs == LexemeChars(ws[n])
        body == IF n = 0 THEN <<>>
                ELSE IF ws[n] = W(":") THEN SubSeq(ws, 1, n - 1)
                ELSE IF ws[n].k = "w" /\ Len(cs) > 1 /\ cs[Len(cs)] = ":"
                     THEN [ws EXCEPT ![n] = W(WordOf(SubSeq(cs, 1, Len(cs) - 1)))]
                ELSE ws
    IN [i \in 1..Len(body) |-> IF body[i].k = "w" THEN Lower(body[i]).s ELSE "#"]

\* re.match(pattern, line_stripped)
re_match(pattern, stripped) == HeaderWords(stripped) \in pattern

IsSubstring(kw, cs) ==
    \E i \in 1..(Len(cs) - Len(kw) + 1) : SubSeq(cs, i, i + Len(kw) - 1) = kw

----------------------------------------------------------------------------
(* find_section_boundaries *)

\* variant: the loop over the patterns of one section type without its break
PatternLoopNoBreak(patterns, stripped, entry) ==
    LET hits == SelectSeq([k \in 1..Len(patterns) |-> re_match(patterns[k], stripped)],
                          LAMBDA b : b)
    IN [k \in 1..Len(hits) |-> entry]

\* "for pattern in patterns: if re.match(...): sections.append(...); break"
PatternLoop(patterns, stripped, entry) ==
    IF \E k \in 1..Len(patterns) : re_match(patterns[k], stripped)
    THEN <<entry>> ELSE <<>>

\* sum(len(l) + 1 for l in lines[:i])
RECURSIVE CharPos(_, _)
CharPos(lines, i) ==
    IF i = 0 THEN 0 ELSE CharPos(lines, i - 1) + Len(Spell(lines[i])) + 1

\* "for section_type, patterns in SECTION_PATTERNS.items()" for line i (0-based)
RECURSIVE TypesLoop(_, _, _)
TypesLoop(lines, i, t) ==
    IF t > Len(SECTION_TYPES) THEN <<>>
    ELSE PatternLoop(SECTION_PATTERNS[SECTION_TYPES[t]], Strip(lines[i + 1]),
                     [type |-> SECTION_TYPES[t], line |-> i, char_pos |-> CharPos(lines, i)])
         \o TypesLoop(lines, i, t + 1)

RECURSIVE LinesLoop(_, _)
LinesLoop(lines, i) ==
    IF i >= Len(lines) THEN <<>>
    ELSE (IF Strip(lines[i + 1]) = <<>> THEN <<>> ELSE TypesLoop(lines, i, 1))
         \o LinesLoop(lines, i + 1)

find_section_boundaries(text) == LinesLoop(SplitLines(text), 0)

----------------------------------------------------------------------------
(* extract_section_content *)

MatchesType(stype, stripped) ==
    \E k \in 1..Len(SECTION_PATTERNS[stype]) :
        re_match(SECTION_PATTERNS[stype][k], stripped)

\* variant: without a header of stype the section starts at the top of the
\* document
SectionStartOrTop(lines, stype) ==
    LET hs == {i \in 0..(Len(lines) - 1) :
                  Strip(lines[i + 1]) # <<>> /\ MatchesType(stype, Strip(lines[i + 1]))}
    IN IF hs = {} THEN Some(0) ELSE Some((CHOOSE i \in hs : \A j \in hs : i <= j) + 1)

\* variant: the last header of stype taken instead of the first
SectionStartLast(lines, stype) ==
    LET hs == {i \in 0..(Len(lines) - 1) :
                  Strip(lines[i + 1]) # <<>> /\ MatchesType(stype, Strip(lines[i + 1]))}
    IN IF hs = {} THEN None ELSE Some((CHOOSE i \in hs : \A j \in hs : i >= j) + 1)

\* the first loop: the index after the first header of stype
SectionStart(lines, stype) ==
    LET hs == {i \in 0..(Len(lines) - 1) :
                  Strip(lines[i + 1]) # <<>> /\ MatchesType(stype, Strip(lines[i + 1]))}
    IN IF hs = {} THEN None ELSE Some((CHOOSE i \in hs : \A j \in hs : i <= j) + 1)

\* "for patterns in SECTION_PATTERNS.values(): ... is_header = True"
IsCatalogHeader(stripped) ==
    \E t \in 1..Len(SECTION_TYPES) : MatchesType(SECTION_TYPES[t], stripped)

MaxHeaderLen == 50

\* "check for common section-like headers by format": all caps, short, and
\* containing a section keyword
IsFormatHeader(stripped) ==
    LET cs == Spell(stripped) IN
    /\ IsUpperChars(cs)
    /\ Len(cs) < MaxHeaderLen
    /\ \E kw \in ALL_SECTION_KEYWORDS : IsSubstring(kw, LowerChars(cs))

\* variant: only the catalog ends a section
EndsSectionCatalogOnly(stripped) == IsCatalogHeader(stripped)

\* is_header after both checks
EndsSection(stripped) == IsCatalogHeader(stripped) \/ IsFormatHeader(stripped)

\* the second loop: the first header line at or after section_start
SectionEnd(lines, section_start) ==
    LET es == {i \in section_start..(Len(lines) - 1) :
                  Strip(lines[i + 1]) # <<>> /\ EndsSection(Strip(lines[i + 1]))}
    IN IF es = {} THEN Len(lines) ELSE CHOOSE i \in es : \A j \in es : i <= j

\* '\n'.join(line for line in content_lines if line.strip())
RECURSIVE JoinNonBlank(_)
JoinNonBlank(ls) ==
    IF ls = <<>> THEN <<>>
    ELSE IF Strip(ls[1]) = <<>> THEN JoinNonBlank(Tail(ls))
    ELSE LET rest == JoinNonBlank(Tail(ls)) IN
         IF \A i \in 1..Len(Tail(ls)) : Strip(Tail(ls)[i]) = <<>> THEN ls[1]
         ELSE ls[1] \o <<NL>> \o rest

extract_section_content(text, stype) ==
    LET lines == SplitLines(text)
        section_start == SectionStart(lines, stype)
        section_end == SectionEnd(lines, section_start.v)
    IN IF ~section_start.some THEN <<>>
       ELSE Strip(JoinNonBlank(SubSeq(lines, section_start.v + 1, section_end)))

----------------------------------------------------------------------------
(* parse_skills_from_section *)

IsUpper(c) == IndexOf(c, UpperLetters) # 0
IsLower(c) == IndexOf(c, LowerLetters) # 0

\* \s
IsSpace(c) == c \in {" ", "\n", "\t"}

\* [A-Za-z\s&/]
IsLabelChar(c) == IsUpper(c) \/ IsLower(c) \/ IsSpace(c) \/ c \in {"&", "/"}

\* the index after the run of label characters that starts at i
RECURSIVE LabelRunEnd(_, _)
LabelRunEnd(s, i) ==
    IF i <= Len(s) /\ IsLabelChar(s[i]) THEN LabelRunEnd(s, i + 1) ELSE i

\* the index after the run of white space that starts at i
RECURSIVE SpaceRunEnd(_, _)
SpaceRunEnd(s, i) ==
    IF i <= Len(s) /\ IsSpace(s[i]) THEN SpaceRunEnd(s, i + 1) ELSE i

\* "[A-Za-z\s&/]+:" matches at i: the greedy run must stop at a colon
LabelAt(s, i) ==
    /\ i <= Len(s)
    /\ IsLabelChar(s[i])
    /\ LabelRunEnd(s, i) <= Len(s)
    /\ s[LabelRunEnd(s, i)] = ":"

\* "$": the end of the string, or just before a line break that ends it
AtEnd(s, q) == q = Len(s) + 1 \/ (q = Len(s) /\ s[q] = "\n")

\* "(?=(?:[A-Za-z\s&/]+:|$))" at q
Lookahead(s, q) == LabelAt(s, q) \/ AtEnd(s, q)

NoCategory == [ok |-> FALSE, category |-> <<>>, skill_list |-> <<>>, end |-> 0]

\* category_pattern matched at i.  "\s*" takes the white space after the
\* colon, giving the last of it back when nothing else is left for ".+?";
\* the lazy ".+?" takes one character and then stops at the first position
\* where the lookahead holds.
CategoryMatchAt(s, i) ==
    IF ~LabelAt(s, i) THEN NoCategory
    ELSE LET j == LabelRunEnd(s, i)
             k0 == SpaceRunEnd(s, j + 1)
             k == IF k0 <= Len(s) THEN k0 ELSE k0 - 1
         IN IF k <= j THEN NoCategory
            ELSE LET q == CHOOSE x \in (k + 1)..(Len(s) + 1) :
                              /\ Lookahead(s, x)
                              /\ \A y \in (k + 1)..(x - 1) : ~Lookahead(s, y)
                 IN [ok |-> TRUE, category |-> SubSeq(s, i, j - 1),
                     skill_list |-> SubSeq(s, k, q - 1), end |-> q]

\* re.findall(category_pattern, skills_text, re.DOTALL) from position p
RECURSIVE FindAllCategories(_, _)
FindAllCategories(s, p) ==
    LET starts == {i \in p..Len(s) : CategoryMatchAt(s, i).ok} IN
    IF starts = {} THEN <<>>
    ELSE LET i == CHOOSE x \in starts : \A y \in starts : x <= y
             m == CategoryMatchAt(s, i)
         IN <<m>> \o FindAllCategories(s, m.end)

\* the character class of the split inside one category (line 259)
CategoryDelims == {",", ";", "|", "U+201A", "U+00C4", "U+00A2", "U+00AC", "U+2211", "\n"}

\* the character class of the delimiters of a simple list (line 250)
FlatDelims ==
    {",", ";", "|", "U+201A", "U+00C4", "U+00A2", "U+00AC", "U+2211", "U+00F1",
     "U+2122", "U+220F", "U+222B", "U+00FB", "U+00A7", "U+00FA", "U+00EC",
     "U+00EE", "U+00F2", "U+00D6", "U+00F3", "U+00E8", "U+00E3", "U+00B6",
     "\n", "\t"}

\* the characters of the third strip of line 268
BulletStripChars == {"U+201A", "U+00C4", "U+00A2"}

RECURSIVE DropDelims(_, _)
DropDelims(s, delims) ==
    IF s # <<>> /\ s[1] \in delims THEN DropDelims(Tail(s), delims) ELSE s

\* re.split(r'[...]+', skill_list): acc is the piece being read
RECURSIVE SplitOnRuns(_, _, _)
SplitOnRuns(s, delims, acc) ==
    IF s = <<>> THEN <<acc>>
    ELSE IF s[1] \in delims
         THEN <<acc>> \o SplitOnRuns(DropDelims(s, delims), delims, <<>>)
    ELSE SplitOnRuns(Tail(s), delims, Append(acc, s[1]))

\* re.split(delimiters, skills_text): a delimiter character, or a run of
\* two or more white space characters, or the empty string between a
\* lower case letter (prev) and an upper case letter
RECURSIVE FlatSplit(_, _, _)
FlatSplit(s, prev, acc) ==
    IF s = <<>> THEN <<acc>>
    ELSE IF s[1] \in FlatDelims THEN <<acc>> \o FlatSplit(Tail(s), s[1], <<>>)
    ELSE IF IsSpace(s[1]) /\ Len(s) >= 2 /\ IsSpace(s[2])
         THEN LET e == SpaceRunEnd(s, 1) IN
              <<acc>> \o FlatSplit(SubSeq(s, e, Len(s)), s[e - 1], <<>>)
    ELSE IF IsLower(prev) /\ IsUpper(s[1])
         THEN <<acc>> \o FlatSplit(Tail(s), s[1], <<s[1]>>)
    ELSE FlatSplit(Tail(s), s[1], Append(acc, s[1]))

\* str.strip(chars)
RECURSIVE StripChars(_, _)
StripChars(cs, chars) ==
    IF cs = <<>> THEN <<>>
    ELSE IF cs[1] \in chars THEN StripChars(Tail(cs), chars)
    ELSE IF cs[Len(cs)] \in chars THEN StripChars(SubSeq(cs, 1, Len(cs) - 1), chars)
    ELSE cs

\* str.strip()
StripSpace(cs) == StripChars(cs, {" ", "\n", "\t"})

MinSkillLen == 1
MaxSkillLen == 50
MaxSpaces == 5

\* cleaned.count(' ')
CountSpaces(cs) == Cardinality({i \in 1..Len(cs) : cs[i] = " "})

\* variant: a length of 50 is accepted
LengthOkUpTo(cleaned) ==
    cleaned # <<>> /\ Len(cleaned) > MinSkillLen /\ Len(cleaned) <= MaxSkillLen

\* "cleaned and len(cleaned) > 1 and len(cleaned) < 50"
LengthOk(cleaned) ==
    cleaned # <<>> /\ Len(cleaned) > MinSkillLen /\ Len(cleaned) < MaxSkillLen

\* "for part in parts" of one category
RECURSIVE CategoryParts(_)
CategoryParts(parts) ==
    IF parts = <<>> THEN <<>>
    ELSE LET cleaned == StripSpace(parts[1]) IN
         (IF LengthOk(cleaned) THEN <<cleaned>> ELSE <<>>) \o CategoryParts(Tail(parts))

\* "for category, skill_list in category_matches"
RECURSIVE CategorizedSkills(_)
CategorizedSkills(category_matches) ==
    IF category_matches = <<>> THEN <<>>
    ELSE CategoryParts(SplitOnRuns(category_matches[1].skill_list, CategoryDelims, <<>>))
         \o CategorizedSkills(Tail(category_matches))

\* "for part in parts" of a simple list
RECURSIVE FlatParts(_)
FlatParts(parts) ==
    IF parts = <<>> THEN <<>>
    ELSE LET cleaned == StripSpace(StripChars(StripChars(StripSpace(parts[1]), {"-"}),
                                              BulletStripChars))
         IN (IF LengthOk(cleaned) /\ CountSpaces(cleaned) < MaxSpaces
             THEN <<cleaned>> ELSE <<>>) \o FlatParts(Tail(parts))

\* the list "skills" when the loops are over
Candidates(text) ==
    LET category_matches == FindAllCategories(text, 1) IN
    IF category_matches # <<>> THEN CategorizedSkills(category_matches)
    ELSE FlatParts(FlatSplit(text, "", <<>>))

\* variant: the skill itself is the key of the set "seen"
skill_exact(skill) == skill

\* skill_lower = skill.lower()
skill_lower(skill) == LowerChars(skill)

\* "for skill in skills: if skill_lower not in seen: ..."
RECURSIVE DedupeLoop(_, _, _)
DedupeLoop(ss, seen, unique) ==
    IF ss = <<>> THEN unique
    ELSE IF skill_lower(ss[1]) \notin seen
         THEN DedupeLoop(Tail(ss), seen \cup {skill_lower(ss[1])}, Append(unique, ss[1]))
    ELSE DedupeLoop(Tail(ss), seen, unique)

parse_skills_from_section(text) ==
    IF text = <<>> THEN <<>> ELSE DedupeLoop(Candidates(text), {}, <<>>)

----------------------------------------------------------------------------
(* job.py: parse_experience *)

IsDigit(c) == IndexOf(c, DigitChars) # 0

RECURSIVE DigitRunEnd(_, _)
DigitRunEnd(s, i) == IF i <= Len(s) /\ IsDigit(s[i]) THEN DigitRunEnd(s, i + 1) ELSE i

\* re.search(r'(\d+)', s): the digits of the first run of digits, or <<>>
FirstDigitRun(s) ==
    LET ds == {i \in 1..Len(s) : IsDigit(s[i])} IN
    IF ds = {} THEN <<>>
    ELSE LET i == CHOOSE x \in ds : \A y \in ds : x <= y
             e == DigitRunEnd(s, i)
         IN [k \in 1..(e - i) |-> IndexOf(s[i + k - 1], DigitChars) - 1]

NotAvailable == <<"N", "/", "A">>

parse_experience(str) ==
    IF str = <<>> \/ str = NotAvailable THEN 0
    ELSE IF FirstDigitRun(str) # <<>> THEN int(FirstDigitRun(str))
    ELSE 0

----------------------------------------------------------------------------
(* similarities.py *)

\* a rational number n/d
Rat(n, d) == [n |-> n, d |-> d]

\* a <= b for rationals with positive denominators
RatLeq(a, b) == a.n * b.d <= b.n * a.d
RatEq(a, b) == a.n * b.d = b.n * a.d

\* variant: the skill is compared as it is written
skill_as_written(skill) == skill

\* skill.lower().strip()
skill_key(skill) == StripSpace(LowerChars(skill))

\* set(skill.lower().strip() for skill in ...)
SkillSet(ss) == {skill_key(ss[i]) : i \in 1..Len(ss)}

skill_similarity(cv_skills, job_skills) ==
    IF job_skills = <<>> THEN Rat(0, 1)
    ELSE Rat(Cardinality(SkillSet(cv_skills) \cap SkillSet(job_skills)),
             Cardinality(SkillSet(job_skills)))

\* variant: no test for jd_years == 0
experience_similarity_unguarded(cv_years, jd_years) ==
    IF RatLeq(Rat(cv_years, jd_years), Rat(1, 1)) THEN Rat(cv_years, jd_years)
    ELSE Rat(1, 1)

\* a division by zero shows as a denominator 0
experience_similarity(cv_years, jd_years) ==
    IF jd_years = 0 THEN Rat(1, 1)
    ELSE IF RatLeq(Rat(cv_years, jd_years), Rat(1, 1)) THEN Rat(cv_years, jd_years)
    ELSE Rat(1, 1)

\* getattr: the object has the attribute
HasAttr(obj, name) == name \in DOMAIN obj

\* (0.50 * semantic_score + 0.35 * skill_score + 0.15 * exp_score) * 100
Weighted(sem, sk, ex) ==
    Rat(50 * sem.n * sk.d * ex.d + 35 * sk.n * sem.d * ex.d + 15 * ex.n * sem.d * sk.d,
        sem.d * sk.d * ex.d)

\* the attributes are read in the order of lines 12-14; reading one the
\* object does not have raises AttributeError
calculate_similarity(cv_data, jb, sem) ==
    IF ~HasAttr(cv_data, "raw_text") \/ ~HasAttr(jb, "requirements")
       \/ ~HasAttr(cv_data, "skills") \/ ~HasAttr(jb, "skills")
       \/ ~HasAttr(cv_data, "experience_years") \/ ~HasAttr(jb, "experience_needed")
    THEN [error |-> "AttributeError", value |-> Rat(0, 1)]
    ELSE [error |-> "",
          value |-> Weighted(sem, skill_similarity(cv_data.skills, jb.skills),
                             experience_similarity(cv_data.experience_years,
                                                   jb.experience_needed))]

----------------------------------------------------------------------------
(* Input texts of the experience estimator *)

RECURSIVE Join(_)
Join(entries) ==
    IF entries = <<>> THEN <<>>
    ELSE IF Len(entries) = 1 THEN entries[1]
    ELSE entries[1] \o <<NL>> \o Join(Tail(entries))

RECURSIVE SeqsUpTo(_, _)
SeqsUpTo(S, n) ==
    IF n = 0 THEN {<<>>}
    ELSE LET shorter == SeqsUpTo(S, n - 1) IN
         shorter \cup {Append(s, x) : s \in {q \in shorter : Len(q) = n - 1}, x \in S}

DateEntries ==
    {<<Y(2,0,1,5), W("-"), Y(2,0,1,7)>>,
     <<Y(2,0,1,9), W("-"), Y(2,0,2,1)>>,
     <<W("Jan"), Y(2,0,1,8), W("-"), W("Jan"), Y(2,0,2,0)>>,
     <<Y(2,0,1,7), W("to"), Y(2,0,1,9)>>,
     <<Y(2,0,2,0), W("-"), Y(2,0,2,0)>>,
     <<Y(2,0,2,1), W("-"), Y(2,0,1,9)>>,
     <<Y(1,9,5,0), W("-"), Y(2,0,1,9)>>,
     <<Y(1,9,5,1), W("-"), Y(2,0,1,5)>>,
     <<Y(2,0,1,9), W("-"), Y(2,0,2,6)>>,
     <<W("Jun"), Y(2,0,1,9), W("-"), W("Present")>>,
     <<Y(1,9,5,0), W("-"), W("now")>>,
     <<Y(2,0,2,1)>>,
     <<W("-")>>,
     <<W("acme")>>}

ExperienceTexts == {Join(es) : es \in SeqsUpTo(DateEntries, MaxRanges)}

Numbers == {N(<<0>>, FALSE), N(<<3>>, FALSE), N(<<5>>, TRUE), N(<<1, 2>>, FALSE)}

SummaryPhrases ==
    {<<n, W("Years"), W("of"), W("Experience")>> : n \in Numbers}
    \cup {<<W("experience"), W("of"), n, W("yrs")>> : n \in Numbers}
    \cup {<<W("over"), n, W("years")>> : n \in Numbers}
    \cup {<<W("worked"), W("for"), N(<<3>>, FALSE), W("years")>>,
          <<N(<<5>>, FALSE), W("years"), W("as"), W("a"), W("developer")>>,
          <<N(<<3>>, FALSE), W("years")>>,
          <<W("in"), W("roles")>>}

SummaryTexts == {Join(ps) : ps \in SeqsUpTo(SummaryPhrases, MaxMentions)}

\* a few texts of each kind, paired with every text of the other kind
FewSummaries == {<<>>, <<N(<<0>>, FALSE), W("years"), W("of"), W("experience")>>}
FewExperiences == {<<>>, <<Y(2,0,1,7), W("-"), Y(2,0,1,9)>>,
                   <<Y(2,0,1,9), W("-"), Y(2,0,1,9)>>,
                   <<Y(2,0,2,1), W("-"), Y(2,0,1,9)>>}

----------------------------------------------------------------------------
(* extract_years_of_experience *)

SegIdle ==
    /\ raw_text = <<>> /\ section_boundaries = <<>>
    /\ section_type = "" /\ content = <<>>

ExpIdle ==
    /\ summary_text = <<>> /\ experience_text = <<>>
    /\ summary_years = None /\ summary_details = <<>>
    /\ exp_years = None /\ exp_details = <<>>
    /\ total_exp = 0 /\ details_out = <<>>

SkillIdle == skills_text = <<>> /\ skills = <<>> /\ unique_skills = <<>>

\* the CVData fields before extract_cv_data has returned
NoCVData ==
    [raw_text |-> <<>>, skills |-> <<>>, skills_raw |-> <<>>, summary |-> <<>>,
     total_experience_years |-> 0, experience_details |-> <<>>, sections_found |-> {}]

CVIdle == sections_found = {} /\ skills_raw = <<>> /\ cv = NoCVData

\* Job(): the fields the similarity reads, with their defaults
NoJob == [skills |-> <<>>, experience_needed |-> 0]

SimIdle ==
    /\ job = NoJob /\ exp_str = <<>>
    /\ semantic_score = Rat(0, 1) /\ skill_score = Rat(0, 1) /\ exp_score = Rat(0, 1)
    /\ final_score = Rat(0, 1) /\ error = ""

ScrIdle ==
    /\ df = <<>> /\ pages = <<>> /\ row_i = 0 /\ driver_quits = 0 /\ visited = <<>>

InitExp ==
    /\ pc = "start"
    /\ SegIdle
    /\ \/ summary_text \in FewSummaries /\ experience_text \in ExperienceTexts
       \/ summary_text \in SummaryTexts /\ experience_text \in FewExperiences
    /\ summary_years = None /\ summary_details = <<>>
    /\ exp_years = None /\ exp_details = <<>>
    /\ total_exp = 0 /\ details_out = <<>>
    /\ SkillIdle /\ CVIdle
    /\ SimIdle /\ ScrIdle

\* Part 1: summary_years, summary_details = extract_experience_from_summary(...)
CheckSummary ==
    /\ pc = "start"
    /\ LET r == extract_experience_from_summary(summary_text) IN
       /\ summary_years' = r[1]
       /\ summary_details' = r[2]
    /\ pc' = "part1"
    /\ UNCHANGED <<summary_text, experience_text, exp_years, exp_details,
                   total_exp, details_out>>
    /\ UNCHANGED <<segVars, skillVars, cvVars>>
    /\ UNCHANGED <<simVars, scrVars>>

\* if summary_years is not None: return summary_years, summary_details
ReturnSummary ==
    /\ pc = "part1"
    /\ summary_years.some
    /\ total_exp' = summary_years.v
    /\ details_out' = summary_details
    /\ pc' = "done"
    /\ UNCHANGED <<summary_text, experience_text, summary_years, summary_details,
                   exp_years, exp_details>>
    /\ UNCHANGED <<segVars, skillVars, cvVars>>
    /\ UNCHANGED <<simVars, scrVars>>

\* Part 2: exp_years, exp_details = extract_experience_from_dates(...)
CheckDates ==
    /\ pc = "part1"
    /\ ~summary_years.some
    /\ LET r == extract_experience_from_dates(experience_text) IN
       /\ exp_years' = r[1]
       /\ exp_details' = r[2]
    /\ pc' = "part2"
    /\ UNCHANGED <<summary_text, experience_text, summary_years, summary_details,
                   total_exp, details_out>>
    /\ UNCHANGED <<segVars, skillVars, cvVars>>
    /\ UNCHANGED <<simVars, scrVars>>

\* return (exp_years if exp_years is not None else 0), exp_details
ReturnDates ==
    /\ pc = "part2"
    /\ total_exp' = (IF exp_years.some THEN exp_years.v ELSE 0)
    /\ details_out' = exp_details
    /\ pc' = "done"
    /\ UNCHANGED <<summary_text, experience_text, summary_years, summary_details,
                   exp_years, exp_details>>
    /\ UNCHANGED <<segVars, skillVars, cvVars>>
    /\ UNCHANGED <<simVars, scrVars>>

NextExp == CheckSummary \/ ReturnSummary \/ CheckDates \/ ReturnDates

SpecExp == InitExp /\ [][NextExp]_vars

----------------------------------------------------------------------------
(* Documents and the two section functions *)

CoreLines ==
    {<<W("experience")>>,
     <<W("SKILLS:")>>,
     <<W("Py,"), W("Go")>>,
     <<W("acme")>>,
     <<>>,
     <<W("AWARDS")>>}

WideLines ==
    CoreLines \cup
    {<<WS>>,
     <<WS, W("Skills"), W(":")>>,
     <<W("Work"), W("Experience")>>,
     <<W("Projects")>>,
     <<W("Key"), W("Projects")>>,
     <<W("PROJECTS")>>,
     <<W("Summary")>>,
     <<W("Awards")>>,
     <<W("AWARDS"), W("LONGWORD")>>,
     <<W("SKILLS"), W("ACME")>>,
     <<W("Skills"), W("Py,")>>,
     <<W("Technical")>>,
     <<W(":")>>,
     <<Y(2,0,1,8), W("-"), Y(2,0,2,0)>>}

Documents ==
    {Join(ls) : ls \in SeqsUpTo(CoreLines, MaxLines)}
    \cup {Join(ls) : ls \in SeqsUpTo(WideLines, MaxWideLines)}

InitSeg ==
    /\ pc = "start"
    /\ raw_text \in Documents
    /\ section_boundaries = <<>> /\ section_type = "" /\ content = <<>>
    /\ ExpIdle
    /\ SkillIdle /\ CVIdle
    /\ SimIdle /\ ScrIdle

FindBoundaries ==
    /\ pc = "start"
    /\ section_boundaries' = find_section_boundaries(raw_text)
    /\ pc' = "boundaries"
    /\ UNCHANGED <<raw_text, section_type, content>>
    /\ UNCHANGED <<expVars, skillVars, cvVars>>
    /\ UNCHANGED <<simVars, scrVars>>

ExtractContent ==
    /\ pc = "start"
    /\ \E t \in {SECTION_TYPES[k] : k \in 1..Len(SECTION_TYPES)} :
          /\ section_type' = t
          /\ content' = extract_section_content(raw_text, t)
    /\ pc' = "content"
    /\ UNCHANGED <<raw_text, section_boundaries>>
    /\ UNCHANGED <<expVars, skillVars, cvVars>>
    /\ UNCHANGED <<simVars, scrVars>>

NextSeg == FindBoundaries \/ ExtractContent

SpecSeg == InitSeg /\ [][NextSeg]_vars

----------------------------------------------------------------------------
(* Skill texts and parse_skills_from_section as an operation *)

SkillChunks ==
    {<<"P", "y", ",", " ">>,
     <<"p", "y", ",", " ">>,
     <<"P", "Y", ";", " ">>,
     <<"G", "o">>,
     <<"g", "o">>,
     <<"T", "o", "o", "l", "s", ":", " ">>,
     <<"\n">>,
     <<" ">>}

\* longer chunks: two categories, pieces with many blanks, a dash-wrapped
\* piece, a one-character piece and a bullet
WideChunks ==
    {<<"P", "y", ",", " ">>,
     <<"L", "a", "n", "g", "s", ":", " ", "P", "y", ",", " ", "G", "o">>,
     <<"\n", "T", "o", "o", "l", "s", ":", " ", "J", "s">>,
     <<";", " ", "T", "o", "o", "l", "s", ":", " ", "J", "s">>,
     <<"a", " ", "b", " ", "c", " ", "d", " ", "e", " ", "f">>,
     <<"a", " ", "b", " ", "c", " ", "d", " ", "e">>,
     <<"-", "P", "y", "-">>,
     <<"x">>,
     <<" ", "U+2022", " ", "J", "s">>}

\* pieces of 49 and 50 characters
LongChunks ==
    {[i \in 1..(MaxSkillLen - 1) |-> "x"], [i \in 1..MaxSkillLen |-> "x"]}

RECURSIVE Concat(_)
Concat(chunks) == IF chunks = <<>> THEN <<>> ELSE chunks[1] \o Concat(Tail(chunks))

SkillTexts ==
    {Concat(cs) : cs \in SeqsUpTo(SkillChunks, MaxChunks)}
    \cup {Concat(cs) : cs \in SeqsUpTo(WideChunks, MaxWideChunks)}
    \cup {first \o long : first \in {<<>>, <<"P", "y", ",", " ">>}, long \in LongChunks}

InitSkills ==
    /\ pc = "start"
    /\ skills_text \in SkillTexts
    /\ skills = <<>> /\ unique_skills = <<>>
    /\ SegIdle /\ ExpIdle /\ CVIdle
    /\ SimIdle /\ ScrIdle

ParseSkills ==
    /\ pc = "start"
    /\ skills' = (IF skills_text = <<>> THEN <<>> ELSE Candidates(skills_text))
    /\ unique_skills' = parse_skills_from_section(skills_text)
    /\ pc' = "parsed"
    /\ UNCHANGED <<skills_text, segVars, expVars, cvVars>>
    /\ UNCHANGED <<simVars, scrVars>>

NextSkills == ParseSkills

SpecSkills == InitSkills /\ [][NextSkills]_vars

----------------------------------------------------------------------------
(* extract_cv_data after the text is decoded *)

CVLines ==
    {<<W("Skills")>>,
     <<W("Summary")>>,
     <<W("experience")>>,
     <<W("Py,"), W("Go")>>,
     <<Y(2,0,1,7), W("-"), Y(2,0,1,9)>>,
     <<N(<<5>>, FALSE), W("Years"), W("of"), W("Experience")>>,
     <<>>}

CVDocuments == {Join(ls) : ls \in SeqsUpTo(CVLines, MaxCVLines)}

InitCV ==
    /\ pc = "cv_start"
    /\ raw_text \in CVDocuments
    /\ section_boundaries = <<>> /\ section_type = "" /\ content = <<>>
    /\ ExpIdle /\ SkillIdle /\ CVIdle
    /\ SimIdle /\ ScrIdle

\* section_boundaries = find_section_boundaries(raw_text); sections_found = ...
FindSections ==
    /\ pc = "cv_start"
    /\ section_boundaries' = find_section_boundaries(raw_text)
    /\ sections_found' = {section_boundaries'[i].type : i \in 1..Len(section_boundaries')}
    /\ pc' = "cv_skills"
    /\ UNCHANGED <<raw_text, section_type, content, skills_raw, cv, expVars, skillVars>>
    /\ UNCHANGED <<simVars, scrVars>>

\* skills_raw = extract_section_content(...); skills = parse_skills_from_section(skills_raw)
ExtractSkills ==
    /\ pc = "cv_skills"
    /\ skills_raw' = extract_section_content(raw_text, "skills")
    /\ skills_text' = Spell(skills_raw')
    /\ skills' = (IF skills_text' = <<>> THEN <<>> ELSE Candidates(skills_text'))
    /\ unique_skills' = parse_skills_from_section(skills_text')
    /\ pc' = "cv_summary"
    /\ UNCHANGED <<segVars, expVars, sections_found, cv>>
    /\ UNCHANGED <<simVars, scrVars>>

\* summary = extract_section_content(raw_text, "summary")
ExtractSummary ==
    /\ pc = "cv_summary"
    /\ summary_text' = extract_section_content(raw_text, "summary")
    /\ pc' = "cv_experience"
    /\ UNCHANGED <<experience_text, summary_years, summary_details, exp_years,
                   exp_details, total_exp, details_out>>
    /\ UNCHANGED <<segVars, skillVars, cvVars>>
    /\ UNCHANGED <<simVars, scrVars>>

\* experience_section = extract_section_content(raw_text, "experience"), then
\* the call of extract_years_of_experience
ExtractExperience ==
    /\ pc = "cv_experience"
    /\ experience_text' = extract_section_content(raw_text, "experience")
    /\ pc' = "start"
    /\ UNCHANGED <<summary_text, summary_years, summary_details, exp_years,
                   exp_details, total_exp, details_out>>
    /\ UNCHANGED <<segVars, skillVars, cvVars>>
    /\ UNCHANGED <<simVars, scrVars>>

\* return CVData(...)
ReturnCVData ==
    /\ pc = "done"
    /\ cv' = [raw_text |-> raw_text, skills |-> unique_skills, skills_raw |-> skills_raw,
              summary |-> summary_text, total_experience_years |-> total_exp,
              experience_details |-> details_out, sections_found |-> sections_found]
    /\ pc' = "cv_done"
    /\ UNCHANGED <<segVars, expVars, skillVars, sections_found, skills_raw>>
    /\ UNCHANGED <<simVars, scrVars>>

NextCV ==
    \/ FindSections
    \/ ExtractSkills
    \/ ExtractSummary
    \/ ExtractExperience
    \/ CheckSummary
    \/ ReturnSummary
    \/ CheckDates
    \/ ReturnDates
    \/ ReturnCVData

SpecCV == InitCV /\ [][NextCV]_vars

----------------------------------------------------------------------------
(* The similarity functions as operations *)

SkillNames ==
    {<<"P", "y">>, <<"p", "y">>, <<" ", "G", "o">>, <<"J", "s">>}

SkillLists == SeqsUpTo(SkillNames, MaxListedSkills)

CVYears == {0, 2, 5, 12}

ExperienceStrings ==
    {<<>>, NotAvailable,
     <<"3", " ", "-", " ", "5", " ", "Y", "r", "s">>,
     <<"0", " ", "Y", "r", "s">>,
     <<"M", "o", "r", "e", " ", "t", "h", "a", "n", " ", "1", "0">>,
     <<"Y", "r", "s">>}

SemanticScores == {Rat(0, 1), Rat(1, 2)}

\* a CVData as extract_cv_data builds it
CVRecord(ss, years) == [NoCVData EXCEPT !.skills = ss, !.total_experience_years = years]

\* a Job as the dataclass builds it
JobRecord(ss) == [skills |-> ss, experience_needed |-> 0, requirements |-> <<>>]

InitSim ==
    /\ pc = "start"
    /\ \/ /\ \E a \in SkillLists : cv = CVRecord(a, 2)
          /\ \E b \in SkillLists : job = JobRecord(b)
          /\ exp_str = <<"3", " ", "-", " ", "5", " ", "Y", "r", "s">>
       \/ /\ \E y \in CVYears : cv = CVRecord(<< <<"P", "y">> >>, y)
          /\ job = JobRecord(<< <<"p", "y">>, <<"J", "s">> >>)
          /\ exp_str \in ExperienceStrings
    /\ semantic_score \in SemanticScores
    /\ skill_score = Rat(0, 1) /\ exp_score = Rat(0, 1)
    /\ final_score = Rat(0, 1) /\ error = ""
    /\ SegIdle /\ ExpIdle /\ SkillIdle /\ ScrIdle
    /\ sections_found = {} /\ skills_raw = <<>>

\* experience_needed = parse_experience(exp_str)
ParseExperience ==
    /\ pc = "start"
    /\ job' = [job EXCEPT !.experience_needed = parse_experience(exp_str)]
    /\ pc' = "job_ready"
    /\ UNCHANGED <<exp_str, semantic_score, skill_score, exp_score, final_score, error>>
    /\ UNCHANGED <<segVars, expVars, skillVars, cvVars, scrVars>>

SkillSimilarity ==
    /\ pc = "job_ready"
    /\ skill_score' = skill_similarity(cv.skills, job.skills)
    /\ pc' = "skill_done"
    /\ UNCHANGED <<job, exp_str, semantic_score, exp_score, final_score, error>>
    /\ UNCHANGED <<segVars, expVars, skillVars, cvVars, scrVars>>

ExperienceSimilarity ==
    /\ pc = "job_ready"
    /\ exp_score' = experience_similarity(cv.total_experience_years, job.experience_needed)
    /\ pc' = "exp_done"
    /\ UNCHANGED <<job, exp_str, semantic_score, skill_score, final_score, error>>
    /\ UNCHANGED <<segVars, expVars, skillVars, cvVars, scrVars>>

CalculateSimilarity ==
    /\ pc = "job_ready"
    /\ LET r == calculate_similarity(cv, job, semantic_score) IN
       /\ final_score' = r.value
       /\ error' = r.error
    /\ pc' = "sim_returned"
    /\ UNCHANGED <<job, exp_str, semantic_score, skill_score, exp_score>>
    /\ UNCHANGED <<segVars, expVars, skillVars, cvVars, scrVars>>

NextSim == ParseExperience \/ SkillSimilarity \/ ExperienceSimilarity \/ CalculateSimilarity

SpecSim == InitSim /\ [][NextSim]_vars

----------------------------------------------------------------------------
(* scrape_job_details *)

MaxRows == 3

\* the columns lines 204-210 add
DetailColumns ==
    {"Salary", "Experience Needed", "Career Level", "Education Level",
     "Job Categories", "Skills", "Job Requirements"}

\* the key of the script's result each column is filled from
ResultKey ==
    [c \in DetailColumns |->
        CASE c = "Experience Needed" -> "experience"
          [] c = "Career Level" -> "careerLevel"
          [] c = "Education Level" -> "education"
          [] c = "Salary" -> "salary"
          [] c = "Job Categories" -> "categories"
          [] c = "Skills" -> "skills"
          [] c = "Job Requirements" -> "requirements"]

\* data.get(key, 'N/A')
Get(data, key) == IF key \in DOMAIN data THEN data[key] ELSE "N/A"

\* df[column] = "N/A" for every column of lines 204-210
WithDetailColumns(rows) ==
    [i \in 1..Len(rows) |->
        [c \in DOMAIN rows[i] \cup DetailColumns |->
            IF c \in DetailColumns THEN "N/A" ELSE rows[i][c]]]

\* df.at[i, column] = data.get(key, 'N/A') for the seven columns
WithDetails(rows, i, data) ==
    [rows EXCEPT ![i] =
        [c \in DOMAIN rows[i] |->
            IF c \in DetailColumns THEN Get(data, ResultKey[c]) ELSE rows[i][c]]]

\* the row an exception caught in the loop body stops at, instead of
\* going on to the next row
OnPageErrorAbort(i, n) == n + 1

\* the row the loop goes on to after the except clause has printed the error
OnPageError(i, n) == i + 1

\* the result of the script on a page where every field was found, and on a
\* page where only experience and skills were
AllFound ==
    [experience |-> "3 - 5 Yrs", careerLevel |-> "Senior", education |-> "BSc",
     salary |-> "Confidential", categories |-> "IT | Data", skills |-> "py | sql",
     requirements |-> "text"]

SomeFound ==
    [experience |-> "1 Yrs", careerLevel |-> "N/A", education |-> "N/A",
     salary |-> "N/A", categories |-> "N/A", skills |-> "go",
     requirements |-> "N/A"]

NoData == <<>>

\* what loading a row's link and running the script on it will do
PageKinds ==
    {[outcome |-> "load_raises", data |-> NoData],
     [outcome |-> "script_raises", data |-> NoData],
     [outcome |-> "ok", data |-> AllFound],
     [outcome |-> "ok", data |-> SomeFound]}

Unlinked == [outcome |-> "none", data |-> NoData]

ListedRow(link) == [Job_Link |-> link, Job_Title |-> "title"]

\* a scraped listing row with the page behind its link
RowKinds ==
    {<<ListedRow("N/A"), Unlinked>>}
    \cup {<<ListedRow("url"), p>> : p \in PageKinds}

InitScrape ==
    /\ pc = "start"
    /\ \E rs \in SeqsUpTo(RowKinds, MaxRows) :
         /\ df = [i \in 1..Len(rs) |-> rs[i][1]]
         /\ pages = [i \in 1..Len(rs) |-> rs[i][2]]
    /\ row_i = 0 /\ driver_quits = 0 /\ visited = <<>>
    /\ SegIdle /\ ExpIdle /\ SkillIdle /\ CVIdle /\ SimIdle

\* lines 203-220: the columns are added and the driver is started
InitColumns ==
    /\ pc = "start"
    /\ df' = WithDetailColumns(df)
    /\ row_i' = 1
    /\ pc' = "loop"
    /\ UNCHANGED <<pages, driver_quits, visited>>
    /\ UNCHANGED <<segVars, expVars, skillVars, cvVars, simVars>>

\* lines 225-226: a row without a link
SkipRow ==
    /\ pc = "loop" /\ row_i <= Len(df)
    /\ df[row_i].Job_Link = "N/A"
    /\ visited' = Append(visited, row_i)
    /\ row_i' = row_i + 1
    /\ UNCHANGED <<pc, df, pages, driver_quits>>
    /\ UNCHANGED <<segVars, expVars, skillVars, cvVars, simVars>>

\* line 229 raises; lines 246-247
LoadFails ==
    /\ pc = "loop" /\ row_i <= Len(df)
    /\ df[row_i].Job_Link # "N/A"
    /\ pages[row_i].outcome = "load_raises"
    /\ visited' = Append(visited, row_i)
    /\ row_i' = OnPageError(row_i, Len(df))
    /\ UNCHANGED <<pc, df, pages, driver_quits>>
    /\ UNCHANGED <<segVars, expVars, skillVars, cvVars, simVars>>

\* line 233 raises; lines 246-247
ExtractFails ==
    /\ pc = "loop" /\ row_i <= Len(df)
    /\ df[row_i].Job_Link # "N/A"
    /\ pages[row_i].outcome = "script_raises"
    /\ visited' = Append(visited, row_i)
    /\ row_i' = OnPageError(row_i, Len(df))
    /\ UNCHANGED <<pc, df, pages, driver_quits>>
    /\ UNCHANGED <<segVars, expVars, skillVars, cvVars, simVars>>

\* lines 229-244
StoreDetails ==
    /\ pc = "loop" /\ row_i <= Len(df)
    /\ df[row_i].Job_Link # "N/A"
    /\ pages[row_i].outcome = "ok"
    /\ df' = WithDetails(df, row_i, pages[row_i].data)
    /\ visited' = Append(visited, row_i)
    /\ row_i' = row_i + 1
    /\ UNCHANGED <<pc, pages, driver_quits>>
    /\ UNCHANGED <<segVars, expVars, skillVars, cvVars, simVars>>

\* line 249, after the loop
Quit ==
    /\ pc = "loop" /\ row_i > Len(df)
    /\ driver_quits' = driver_quits + 1
    /\ pc' = "done"
    /\ UNCHANGED <<df, pages, row_i, visited>>
    /\ UNCHANGED <<segVars, expVars, skillVars, cvVars, simVars>>

NextScrape ==
    InitColumns \/ SkipRow \/ LoadFails \/ ExtractFails \/ StoreDetails \/ Quit

\* the function runs on: a page load ends in 30 s (line 220) at the latest
SpecScrape == InitScrape /\ [][NextScrape]_vars /\ WF_vars(NextScrape)

----------------------------------------------------------------------------
(* The date ranges of the experience text as the specification reads them *)

\* every match of the date pattern, as [s, e] with "present" resolved
MatchedRanges ==
    LET ms == FindAllDates(LowerText(experience_text), 1) IN
    [i \in 1..Len(ms) |->
        [s |-> int(ms[i].start),
         e |-> IF EndIsPresent(ms[i].end_part) THEN current_year
               ELSE EndYearOf(ms[i].end_part).v,
         open |-> EndIsPresent(ms[i].end_part)]]

InWindow(y) == 1950 < y /\ y <= 2025
ValidRange(r) == InWindow(r.s) /\ InWindow(r.e) /\ r.s <= r.e

AllRangesValid == \A i \in 1..Len(MatchedRanges) : ValidRange(MatchedRanges[i])

\* insertion of r into a sequence sorted by start year
RECURSIVE InsertByStart(_, _)
InsertByStart(r, sorted) ==
    IF sorted = <<>> THEN <<r>>
    ELSE IF r.s < sorted[1].s THEN <<r>> \o sorted
    ELSE <<sorted[1]>> \o InsertByStart(r, Tail(sorted))

RECURSIVE SortByStart(_)
SortByStart(rs) ==
    IF rs = <<>> THEN <<>>
    ELSE InsertByStart(rs[Len(rs)], SortByStart(SubSeq(rs, 1, Len(rs) - 1)))

\* the classic sweep over ranges sorted by start year
RECURSIVE Sweep(_, _)
Sweep(merged, rs) ==
    IF rs = <<>> THEN merged
    ELSE LET cur == merged[Len(merged)] IN
         IF rs[1].s <= cur.e
         THEN Sweep([merged EXCEPT ![Len(merged)].e = Max2(cur.e, rs[1].e)], Tail(rs))
         ELSE Sweep(Append(merged, rs[1]), Tail(rs))

MergedIntervals(rs) ==
    IF rs = <<>> THEN <<>>
    ELSE LET sorted == SortByStart(rs) IN Sweep(<<sorted[1]>>, Tail(sorted))

SpanSum(rs) == SeqSum([i \in 1..Len(rs) |-> rs[i].e - rs[i].s])

NoTier1Match == SummaryMentions(LowerText(summary_text), 1) = <<>>

\* every matched range is valid and each one starts no later than the end
\* of the interval merged so far
RangesOverlapOrTouch ==
    /\ MatchedRanges # <<>>
    /\ AllRangesValid
    /\ Len(MergedIntervals(MatchedRanges)) = 1

\* every matched range is valid and each one starts after the previous end
RangesDisjointWithGaps ==
    /\ Len(MatchedRanges) >= 2
    /\ AllRangesValid
    /\ Len(MergedIntervals(MatchedRanges)) = Len(MatchedRanges)

----------------------------------------------------------------------------
(* Claims about extract_years_of_experience *)

\* C1: when no explicit-mention template matches the summary and the date
\* ranges of the experience text are valid and overlap or touch, the returned
\* years are the length of their union: years covered twice count once.
C1_OverlapCountedOnce ==
    (pc = "done" /\ NoTier1Match /\ RangesOverlapOrTouch)
        => total_exp = SpanSum(MergedIntervals(MatchedRanges))

\* two ranges that share years, so that the union is shorter than their sum
C1_Witness ==
    /\ pc = "done" /\ NoTier1Match /\ RangesOverlapOrTouch
    /\ MatchedRanges = <<[s |-> 2018, e |-> 2020, open |-> FALSE],
                         [s |-> 2019, e |-> 2025, open |-> TRUE]>>
    /\ SpanSum(MatchedRanges) = 8
    /\ total_exp = 7

RECURSIVE ValidRecords(_)
ValidRecords(rs) ==
    IF rs = <<>> THEN <<>>
    ELSE (IF ValidRange(rs[1])
          THEN <<[type |-> "date_range", start |-> rs[1].s, years |-> rs[1].e - rs[1].s]>>
          ELSE <<>>) \o ValidRecords(Tail(rs))

\* C3: every range that contributes to tier 2 has both years in
\* (1950, currentYear] and start <= end; a range with start > end is
\* discarded and leaves no provenance record.
C3_ContributingRangesValid ==
    pc = "part2" =>
        /\ \A i \in 1..Len(exp_details) :
              /\ InWindow(exp_details[i].start)
              /\ InWindow(exp_details[i].start + exp_details[i].years)
              /\ exp_details[i].years >= 0
        /\ Len(exp_details) <= Len(ValidRecords(MatchedRanges))

\* C4: whenever a template matches the summary, for any N including 0, the
\* result is the maximum N with explicit-mention records only, whatever the
\* experience text contains.
C4_Tier1Precedence ==
    LET ms == SummaryMentions(LowerText(summary_text), 1) IN
    (pc = "done" /\ ms # <<>>)
        => /\ total_exp = SeqMax([i \in 1..Len(ms) |-> int(ms[i])])
           /\ details_out # <<>>
           /\ \A i \in 1..Len(details_out) :
                 details_out[i].type = "explicit_mention_summary"

\* C5: a result of 0 years carries an empty provenance list.
C5_ZeroHasNoProvenance ==
    (pc = "done" /\ total_exp = 0) => details_out = <<>>

----------------------------------------------------------------------------
(* Claims about the section functions *)

DocLines == SplitLines(raw_text)

\* the lines (counted from 1) that are headers of category t
Occurrences(t) ==
    {i \in 1..Len(DocLines) :
        Strip(DocLines[i]) # <<>> /\ MatchesType(t, Strip(DocLines[i]))}

FirstOccurrence(t) == CHOOSE i \in Occurrences(t) : \A j \in Occurrences(t) : i <= j

CatalogHeaderAt(i) == Strip(DocLines[i]) # <<>> /\ IsCatalogHeader(Strip(DocLines[i]))

FormatHeaderAt(i) == Strip(DocLines[i]) # <<>> /\ IsFormatHeader(Strip(DocLines[i]))

Least(S, default) == IF S = {} THEN default ELSE CHOOSE i \in S : \A j \in S : i <= j

\* the next line after i that the catalog classifies as a header, or the
\* line after the last one
NextCatalogHeader(i) ==
    Least({j \in (i + 1)..Len(DocLines) : CatalogHeaderAt(j)}, Len(DocLines) + 1)

\* the next line after i that is a catalog header or an all-caps keyword line
NextHeaderLikeLine(i) ==
    Least({j \in (i + 1)..Len(DocLines) : CatalogHeaderAt(j) \/ FormatHeaderAt(j)},
          Len(DocLines) + 1)

\* the non-blank lines from..to, joined by line breaks and trimmed
LinesBetween(from, to) == Strip(JoinNonBlank(SubSeq(DocLines, from, to)))

\* the block after the header on line i, up to the next catalog header
BlockAfter(i) == LinesBetween(i + 1, NextCatalogHeader(i) - 1)

\* the blocks after every header of category t, in document order
RECURSIVE BlocksFrom(_, _)
BlocksFrom(t, i) ==
    IF i > Len(DocLines) THEN <<>>
    ELSE (IF i \in Occurrences(t) THEN <<BlockAfter(i)>> ELSE <<>>) \o BlocksFrom(t, i + 1)

FirstCategory(i) ==
    SECTION_TYPES[Least({t \in 1..Len(SECTION_TYPES) :
                            MatchesType(SECTION_TYPES[t], Strip(DocLines[i]))}, 1)]

\* C8: find_section_boundaries records at most one entry per line, none for
\* a blank line, one for a non-blank line iff its trimmed text matches a
\* pattern of the catalog, with the first matching category in registration
\* order, and the entries are in ascending line order.
C8_OneEntryPerHeaderLine ==
    pc = "boundaries" =>
        /\ \A k \in 1..(Len(section_boundaries) - 1) :
              section_boundaries[k].line < section_boundaries[k + 1].line
        /\ \A i \in 1..Len(DocLines) :
              (\E k \in 1..Len(section_boundaries) : section_boundaries[k].line = i - 1)
                  <=> CatalogHeaderAt(i)
        /\ \A k \in 1..Len(section_boundaries) :
              section_boundaries[k].type = FirstCategory(section_boundaries[k].line + 1)

\* a line that matches two patterns of its category is recorded once, the
\* blank line and the text line are not recorded
C8_Witness ==
    /\ pc = "boundaries"
    /\ raw_text = Join(<< <<W("experience")>>, <<>>, <<W("acme")>>, <<W("SKILLS:")>> >>)
    /\ Cardinality({k \in 1..Len(SECTION_PATTERNS.experience) :
                       re_match(SECTION_PATTERNS.experience[k], <<W("experience")>>)}) = 2
    /\ section_boundaries = <<[type |-> "experience", line |-> 0, char_pos |-> 0],
                              [type |-> "skills", line |-> 3, char_pos |-> 17]>>

----------------------------------------------------------------------------
(* Documents without structure *)

\* no line of the document matches a header pattern of the catalog
NoHeaderLine ==
    \A i \in 1..Len(DocLines) :
        Strip(DocLines[i]) = <<>> \/ ~IsCatalogHeader(Strip(DocLines[i]))

\* the positions of the pipeline after each of its results is available
AfterSections == {"cv_skills", "cv_summary", "cv_experience", "start", "part1",
                  "part2", "done", "cv_done"}
AfterSkills == AfterSections \ {"cv_skills"}
AfterYears == {"done", "cv_done"}

\* what the pipeline has computed so far for a document without headers
NoStructureResults ==
    /\ pc \in AfterSections => section_boundaries = <<>> /\ sections_found = {}
    /\ pc \in AfterSkills => skills_raw = <<>> /\ skills = <<>> /\ unique_skills = <<>>
    /\ pc \in AfterYears => total_exp = 0 /\ details_out = <<>>
    /\ pc = "cv_done" =>
          /\ cv.sections_found = {}
          /\ cv.skills = <<>>
          /\ cv.total_experience_years = 0
          /\ cv.experience_details = <<>>

\* C9: for a document that is empty or has no line matching a header pattern,
\* every step of the pipeline from find_section_boundaries to the returned
\* CVData yields the empty result: no section is found, no skill is parsed,
\* the years are 0 and the list of details is empty.
C9_NoStructureYieldsEmpty == NoHeaderLine => NoStructureResults

\* the pipeline has returned for a document without headers whose lines hold
\* a skill list, a date range and an explicit mention of years
C9_Witness ==
    /\ pc = "cv_done"
    /\ NoHeaderLine
    /\ \E i, j, k \in 1..Len(DocLines) :
          /\ DocLines[i] = <<W("Py,"), W("Go")>>
          /\ DocLines[j] = <<Y(2,0,1,7), W("-"), Y(2,0,1,9)>>
          /\ DocLines[k] = <<N(<<5>>, FALSE), W("Years"), W("of"), W("Experience")>>
    /\ cv.raw_text = raw_text

----------------------------------------------------------------------------
(* Deduplication of skills *)

\* the positions of "skills" whose entry did not occur earlier in any casing
FirstSeen ==
    {i \in 1..Len(skills) :
        \A j \in 1..(i - 1) : LowerChars(skills[j]) # LowerChars(skills[i])}

\* the entries of "skills" at the positions P, in order
RECURSIVE Pick(_, _)
Pick(P, i) ==
    IF i > Len(skills) THEN <<>>
    ELSE (IF i \in P THEN <<skills[i]>> ELSE <<>>) \o Pick(P, i + 1)

\* C10: the list returned by parse_skills_from_section has no two entries
\* that are equal ignoring case, and consists of the first occurrence of each
\* candidate, in its original casing and in the order of first appearance.
C10_DedupeIgnoringCase ==
    pc = "parsed" =>
        /\ \A i, j \in 1..Len(unique_skills) :
              i # j => LowerChars(unique_skills[i]) # LowerChars(unique_skills[j])
        /\ unique_skills = Pick(FirstSeen, 1)

\* a simple list in which a skill comes back in another casing before a
\* second skill: "Py, PY; Go"
C10_Witness ==
    /\ pc = "parsed"
    /\ skills = <<<<"P", "y">>, <<"P", "Y">>, <<"G", "o">>>>
    /\ unique_skills = <<<<"P", "y">>, <<"G", "o">>>>
    /\ FindAllCategories(skills_text, 1) = <<>>

----------------------------------------------------------------------------
(* Categorized skills as the specification reads them *)

\* a character of a category label: a label never runs over a line break
LineLabelChar(c) == IsLabelChar(c) /\ c # "\n"

\* the colons that end a label
LabelColons ==
    {j \in 2..Len(skills_text) :
        skills_text[j] = ":" /\ LineLabelChar(skills_text[j - 1])}

\* the first character of the label that ends at the colon j
LabelStart(j) ==
    CHOOSE i \in 1..(j - 1) :
        /\ \A k \in i..(j - 1) : LineLabelChar(skills_text[k])
        /\ i = 1 \/ ~LineLabelChar(skills_text[i - 1])

\* the list of the group whose label ends at j: up to the next label or the
\* end of the text
GroupList(j) ==
    LET later == {k \in LabelColons : k > j} IN
    IF later = {} THEN SubSeq(skills_text, j + 1, Len(skills_text))
    ELSE SubSeq(skills_text, j + 1,
                LabelStart(CHOOSE k \in later : \A m \in later : k <= m) - 1)

\* comma, semicolon, pipe, bullet, newline
ListSeparators == {",", ";", "|", "U+2022", "\n"}

\* the trimmed pieces of one list whose length is > 1 and < 50
Pieces(list) ==
    LET parts == SplitOnRuns(list, ListSeparators, <<>>) IN
    {StripSpace(parts[i]) : i \in 1..Len(parts)} \cap
    {p \in {StripSpace(parts[i]) : i \in 1..Len(parts)} : Len(p) > 1 /\ Len(p) < 50}

\* the text consists of groupings "<label>: <list>" with non-blank lists
HasGroupings ==
    /\ LabelColons # {}
    /\ \A j \in 1..Len(skills_text) : skills_text[j] = ":" => j \in LabelColons
    /\ \A j \in LabelColons : StripSpace(GroupList(j)) # <<>>

LowerSet(S) == {LowerChars(x) : x \in S}

\* C11: when the skills text consists of groupings "<label>: <list>", the
\* skills returned are, up to case, exactly the trimmed pieces of length > 1
\* and < 50 of every group's list, whether the groups are separated by ";"
\* or by line breaks, and no label is among them.
C11_EveryGroupPieceReturned ==
    (pc = "parsed" /\ HasGroupings) =>
        LowerSet({unique_skills[i] : i \in 1..Len(unique_skills)})
            = LowerSet(UNION {Pieces(GroupList(j)) : j \in LabelColons})

----------------------------------------------------------------------------
(* The shape of the returned skills *)

\* the text was parsed as a simple list: no grouping was found
FlatMode == FindAllCategories(skills_text, 1) = <<>>

\* C12: every skill returned by parse_skills_from_section is non-empty, has
\* no white space at either end and has more than 1 and fewer than 50
\* characters; in flat mode it also has fewer than 5 blanks; the empty text
\* gives the empty list.
C12_ReturnedSkillsWellFormed ==
    pc = "parsed" =>
        /\ \A i \in 1..Len(unique_skills) :
              LET skill == unique_skills[i] IN
              /\ skill # <<>>
              /\ ~IsSpace(skill[1]) /\ ~IsSpace(skill[Len(skill)])
              /\ Len(skill) > 1 /\ Len(skill) < 50
              /\ FlatMode => Cardinality({k \in 1..Len(skill) : skill[k] = " "}) < 5
        /\ skills_text = <<>> => unique_skills = <<>>

\* the simple list "Py, a b c d e f": the piece with five blanks is dropped
C12_Witness ==
    /\ pc = "parsed" /\ FlatMode
    /\ unique_skills = << <<"P", "y">> >>
    /\ skills_text = <<"P", "y", ",", " ", "a", " ", "b", " ", "c", " ", "d", " ", "e", " ", "f">>

----------------------------------------------------------------------------
(* The match score *)

\* C13: for every CVData built by extract_cv_data and every Job,
\* calculate_similarity ends without an exception and returns
\* (0.50 * semantic + 0.35 * skill overlap + 0.15 * experience ratio) * 100,
\* the ratio taken from the years the CVData stores.
C13_SimilarityReturnsWeightedScore ==
    pc = "sim_returned" =>
        /\ error = ""
        /\ final_score = Weighted(semantic_score,
                                  skill_similarity(cv.skills, job.skills),
                                  experience_similarity(cv.total_experience_years,
                                                        job.experience_needed))

----------------------------------------------------------------------------
(* Skill overlap *)

\* a list as a set of lower-cased, trimmed strings
Normalized(ss) == {StripSpace(LowerChars(ss[i])) : i \in 1..Len(ss)}

\* C14: skill_similarity returns 0 for an empty list of job skills and
\* otherwise |cv \cap job| / |job| over the sets of lower-cased, trimmed
\* strings; the result is within [0, 1], and for a non-empty list of job
\* skills it is 1 exactly when every job skill is among the CV skills.
C14_SkillOverlapRatio ==
    pc = "skill_done" =>
        LET cvs == Normalized(cv.skills)
            jobs == Normalized(job.skills)
        IN /\ job.skills = <<>> => skill_score = Rat(0, 1)
           /\ job.skills # <<>> =>
                 /\ skill_score = Rat(Cardinality(cvs \cap jobs), Cardinality(jobs))
                 /\ RatEq(skill_score, Rat(1, 1)) <=> jobs \subseteq cvs
           /\ skill_score.d > 0
           /\ RatLeq(Rat(0, 1), skill_score) /\ RatLeq(skill_score, Rat(1, 1))

\* CV skills "Py", "py" against job skills "py", " Go": one of two
C14_Witness ==
    /\ pc = "skill_done"
    /\ cv.skills = << <<"P", "y">>, <<"p", "y">> >>
    /\ job.skills = << <<"p", "y">>, <<" ", "G", "o">> >>
    /\ skill_score = Rat(1, 2)

----------------------------------------------------------------------------
(* Experience ratio *)

\* min(cv_years / jd_years, 1) for jd_years > 0
CappedRatio(cv_years, jd_years) ==
    IF cv_years <= jd_years THEN Rat(cv_years, jd_years) ELSE Rat(1, 1)

\* C15: experience_similarity returns 1 when jd_years is 0 and otherwise
\* min(cv_years / jd_years, 1); for the years the CV extraction and
\* parse_experience produce, the result is within [0, 1], no smaller than
\* the result for any fewer CV years, and no division by zero happens.
C15_ExperienceRatio ==
    pc = "exp_done" =>
        LET cv_years == cv.total_experience_years
            jd_years == job.experience_needed
        IN /\ cv_years >= 0 /\ jd_years >= 0
           /\ jd_years = 0 => exp_score = Rat(1, 1)
           /\ jd_years # 0 => exp_score = CappedRatio(cv_years, jd_years)
           /\ exp_score.d # 0
           /\ RatLeq(Rat(0, 1), exp_score) /\ RatLeq(exp_score, Rat(1, 1))
           /\ \A fewer \in 0..cv_years :
                 /\ experience_similarity(fewer, jd_years).d # 0
                 /\ RatLeq(experience_similarity(fewer, jd_years), exp_score)

\* a job whose experience text is "N/A" needs 0 years: the score is 1
C15_Witness ==
    /\ pc = "exp_done"
    /\ exp_str = <<"N", "/", "A">>
    /\ job.experience_needed = 0
    /\ cv.total_experience_years = 5
    /\ exp_score = Rat(1, 1)

----------------------------------------------------------------------------
(* Page errors in scrape_job_details *)

AllNotAvailable(row) == \A c \in DetailColumns : row[c] = "N/A"

\* the rows are visited one by one in their order, each once
VisitedInOrder ==
    /\ Len(visited) <= Len(df)
    /\ \A k \in 1..Len(visited) : visited[k] = k

\* a visited row holds the values of its page, or "N/A" everywhere when it
\* has no link or its page failed
VisitedRowsFilled ==
    \A i \in 1..Len(visited) :
        IF df[i].Job_Link # "N/A" /\ pages[i].outcome = "ok"
        THEN \A c \in DetailColumns : df[i][c] = pages[i].data[ResultKey[c]]
        ELSE AllNotAvailable(df[i])

\* the driver is quit once, and only after every row has been visited
QuitOnceAfterLastRow ==
    /\ driver_quits = IF pc = "done" THEN 1 ELSE 0
    /\ pc = "done" => Len(visited) = Len(df)

\* C16: a page whose load or extraction raises is skipped and the batch goes
\* on: every row is visited once, in order; rows without a link and rows whose
\* page failed keep "N/A" in the seven detail columns, the other rows get the
\* values extracted from their page; and the driver is quit once, after the
\* last row.
C16_PageErrorsDoNotAbortBatch ==
    /\ [](VisitedInOrder /\ VisitedRowsFilled /\ QuitOnceAfterLastRow)
    /\ <>(pc = "done")

\* a failing first page, then a page that is scraped, then the quit
C16_Witness ==
    /\ pc = "done" /\ driver_quits = 1
    /\ Len(df) = 3 /\ visited = <<1, 2, 3>>
    /\ pages[1].outcome = "load_raises" /\ AllNotAvailable(df[1])
    /\ pages[2].outcome = "ok" /\ df[2]["Skills"] = "py | sql"
    /\ pages[3].outcome = "script_raises" /\ AllNotAvailable(df[3])

----------------------------------------------------------------------------
(* Discarded ranges and provenance records *)

\* the matches of the date pattern in the experience text
DateMatches == FindAllDates(LowerText(experience_text), 1)

\* the matches the sanity check of the loop lets through
Surviving ==
    {i \in 1..Len(DateMatches) : SanityCheck(MatchedRanges[i].s, MatchedRanges[i].e)}

RECURSIVE Keep(_, _, _)
Keep(s, idx, i) ==
    IF i > Len(s) THEN <<>>
    ELSE (IF i \in idx THEN <<s[i]>> ELSE <<>>) \o Keep(s, idx, i + 1)

\* what extract_experience_from_dates returns for the surviving matches alone
ResultOfSurviving ==
    LET ms == Keep(DateMatches, Surviving, 1)
        acc == DatesLoop(EmptyAcc, ms, 1)
    IN IF ms = <<>> THEN <<None, <<>>>>
       ELSE DatesReturn(TotalYears(acc), acc.details)

\* C17: a date range that the validity check discards has no effect: the
\* years and the provenance list computed from the experience text are those
\* of the surviving ranges alone.
C17_DiscardedRangeHasNoEffect ==
    pc = "part2" => <<exp_years, exp_details>> = ResultOfSurviving

\* C18: each date_range record describes its own match: its end is "present"
\* exactly when that match ended in present/current/now and is that match's
\* end year otherwise, and its years are that match's end year minus its
\* start year.
C18_RecordDescribesOwnMatch ==
    pc = "part2" =>
        LET own == Keep(MatchedRanges, Surviving, 1) IN
        \A i \in 1..Len(exp_details) :
            /\ i <= Len(own)
            /\ exp_details[i].start = own[i].s
            /\ exp_details[i].end.present <=> own[i].open
            /\ ~own[i].open => exp_details[i].end.year = own[i].e
            /\ exp_details[i].years = own[i].e - own[i].s

====
